---- MODULE Spec2Model ----
(***************************************************************************)
(* Validation decision pipeline of the ICD-10-AM / ACHI validator.         *)
(*                                                                         *)
(* State: the two code tables (icd10am_codes, achi_codes), the table of    *)
(* validated pairs (valid_relationships), the in-process response cache    *)
(* of RAGValidator, the number of requests sent to the chat model, the     *)
(* HTTP requests of the /api/validate endpoint and its test log, the       *)
(* tables of the hierarchical validator, and the answers a chat model that *)
(* answers equal requests equally has given.                               *)
(* Confidences are kept in hundredths (1.0 is 100, 0.75 is 75).            *)
(* Python dicts are records whose DOMAIN is the dict's key set.            *)
(***************************************************************************)
EXTENDS Integers, Sequences, FiniteSets, TLC

VARIABLES icd10am_codes, achi_codes, valid_relationships, cache,
          oracleCalls, seen, ret,
          requests, validation_test_log,
          icd_achi_category_mapping, achi_codes_v2, ai_validator,
          answers

vars == <<icd10am_codes, achi_codes, valid_relationships, cache,
          oracleCalls, seen, ret, requests, validation_test_log,
          icd_achi_category_mapping, achi_codes_v2, ai_validator, answers>>

\* The state of the HTTP service: the requests and the test log.
server == <<requests, validation_test_log>>

\* The state of HierarchicalValidator: the two tables it reads and whether
\* its RAGValidator could be constructed.
hierarchy == <<icd_achi_category_mapping, achi_codes_v2, ai_validator>>

\* ------------------------------------------------------------------ bounds
MaxOracleCalls == 1
MaxRows == 2
MaxRequests == 2
MaxStoreRows == 6
MaxRepeatCalls == 2

\* --------------------------------------------------------------- constants
FullConfidence == 100
ZeroConfidence == 0
SimilarLimit == 5

None == [none |-> TRUE]

\* ------------------------------------------------------------ catalogue
\* Rows the import scripts can load into icd10am_codes; category is the
\* description of the icd10_main_categories row joined on the 3-character
\* prefix of the code.
IcdCatalogue ==
  { [code |-> "K02.9", description |-> "Dental caries", category |-> "Dental"],
    [code |-> "K04.7", description |-> "Periapical abscess", category |-> "Dental"] }

\* Rows the import scripts can load into achi_codes, joined with code_blocks.
AchiCatalogue ==
  { [code |-> "52318-00", description |-> "Extraction of tooth",
     short_description |-> "Tooth extraction", category |-> "Dental"],
    [code |-> "92209-00", description |-> "Non-invasive ventilatory support",
     short_description |-> "NIV support", category |-> "Respiratory"] }

IcdInputs == {r.code : r \in IcdCatalogue}
AchiInputs == {r.code : r \in AchiCatalogue}
\* Diagnosis codes the hierarchical validator is called with.
HierarchyIcdInputs == {"K02.9"}

\* ---------------------------------------------------------------- oracle
\* What one chat-completion request can produce: a JSON object (the parsed
\* content), or an exception (transport failure, non-2xx, unparseable text).
GoodContent ==
  [is_valid |-> TRUE, reasoning |-> "clinically appropriate",
   confidence |-> 75, certainty_explanation |-> "strong evidence"]
NoConfidenceContent ==
  [is_valid |-> TRUE, reasoning |-> "clinically appropriate",
   certainty_explanation |-> "strong evidence"]
HighContent ==
  [is_valid |-> TRUE, reasoning |-> "clinically appropriate",
   confidence |-> 150, certainty_explanation |-> "strong evidence"]

OracleReplies ==
  { [ok |-> TRUE, content |-> GoodContent],
    [ok |-> TRUE, content |-> NoConfidenceContent],
    [ok |-> TRUE, content |-> HighContent],
    [ok |-> FALSE, cause |-> "Request timed out."] }

\* dict[key] = value on a Python dict
DictSet(d, key, value) ==
  [k \in DOMAIN d \cup {key} |-> IF k = key THEN value ELSE d[k]]

\* ------------------------------------------------------- database queries
\* Codes a client can type with another letter case than the workbook has.
CaseIcdInputs == {"K02.9", "k02.9"}
CaseVariants == {CaseIcdInputs}
SameIgnoringCase(a, b) == a = b \/ \E S \in CaseVariants : {a, b} \subseteq S

\* The lookup with a comparison that ignores letter case.
get_icd_with_category_nocase(icd_code) ==
  IF \E r \in icd10am_codes : SameIgnoringCase(r.code, icd_code)
  THEN LET row == CHOOSE r \in icd10am_codes : SameIgnoringCase(r.code, icd_code)
       IN [code |-> row.code, description |-> row.description,
           category |-> row.category]
  ELSE None

get_icd_with_category(icd_code) ==
  IF \E r \in icd10am_codes : r.code = icd_code
  THEN LET row == CHOOSE r \in icd10am_codes : r.code = icd_code
       IN [code |-> row.code, description |-> row.description,
           category |-> row.category]
  ELSE None

get_achi_with_category(achi_code) ==
  IF \E r \in achi_codes : r.code = achi_code
  THEN LET row == CHOOSE r \in achi_codes : r.code = achi_code
       IN [code |-> row.code, description |-> row.description,
           short_description |-> row.short_description,
           category |-> row.category]
  ELSE None

SetMin(S) == CHOOSE m \in S : \A n \in S : m <= n

get_exact_match(icd_code, achi_code) ==
  LET hits == {i \in 1..Len(valid_relationships) :
                 /\ valid_relationships[i].icd_code = icd_code
                 /\ valid_relationships[i].achi_code = achi_code}
  IN IF hits = {} THEN None ELSE valid_relationships[SetMin(hits)]

\* ORDER BY confidence DESC over the row ids idx: repeatedly take the row of
\* highest confidence, the earliest rowid among equals.
RECURSIVE OrderByConfidenceDesc(_)
OrderByConfidenceDesc(idx) ==
  IF idx = {} THEN <<>>
  ELSE LET top == {i \in idx : \A j \in idx :
                      valid_relationships[j].confidence <= valid_relationships[i].confidence}
           first == SetMin(top)
       IN <<valid_relationships[first]>> \o OrderByConfidenceDesc(idx \ {first})

Take(s, n) == IF Len(s) <= n THEN s ELSE SubSeq(s, 1, n)

\* The examples query without its ORDER BY clause.
get_similar_examples_unordered(icd_category, achi_category, limit) ==
  LET idx == {i \in 1..Len(valid_relationships) :
                /\ valid_relationships[i].icd_category = icd_category
                /\ valid_relationships[i].achi_category = achi_category}
  IN Take([k \in 1..Cardinality(idx) |->
             valid_relationships[CHOOSE i \in idx :
                                   Cardinality({j \in idx : j < i}) = k - 1]], limit)

get_similar_examples(icd_category, achi_category, limit) ==
  Take(OrderByConfidenceDesc(
         {i \in 1..Len(valid_relationships) :
            /\ valid_relationships[i].icd_category = icd_category
            /\ valid_relationships[i].achi_category = achi_category}), limit)

\* ------------------------------------------------------------ RAGValidator
\* md5 of "icd:achi"; the digest is modelled by the string it is taken of.
get_cache_key(icd_code, achi_code) == icd_code \o ":" \o achi_code

\* f"{x:.2f}" of a confidence kept in hundredths
Digits == <<"0", "1", "2", "3", "4", "5", "6", "7", "8", "9">>
Fmt2(c) ==
  Digits[(c \div 100) + 1] \o "." \o Digits[((c % 100) \div 10) + 1]
    \o Digits[(c % 10) + 1]

\* bool(x) of a nullable string
Truthy(x) == x # None /\ x.value # ""

\* A request whose seed changes from one request to the next.
chat_request_numbered(prompt) ==
  [model |-> "gpt-4.1-mini", temperature |-> 0, seed |-> 42 + oracleCalls,
   max_tokens |-> 800, response_format |-> "json_object", prompt |-> prompt]

\* The keyword arguments of client.chat.completions.create; the prompt is
\* kept as the template used and the values formatted into it.
chat_request(prompt) ==
  [model |-> "gpt-4.1-mini", temperature |-> 0, seed |-> 42, max_tokens |-> 800,
   response_format |-> "json_object", prompt |-> prompt]

\* The prompt of validate_pure_ai with the category labels left out.
pure_ai_prompt_without_categories(icd_data, achi_data) ==
  [template |-> "pure_ai",
   icd_code |-> icd_data.code, icd_description |-> icd_data.description,
   achi_code |-> achi_data.code,
   achi_short_description |-> achi_data.short_description]

pure_ai_prompt(icd_data, achi_data) ==
  [template |-> "pure_ai",
   icd_code |-> icd_data.code, icd_description |-> icd_data.description,
   icd_category |-> icd_data.category,
   achi_code |-> achi_data.code,
   achi_short_description |-> achi_data.short_description,
   achi_category |-> achi_data.category]

\* examples_text: one block per example, numbered from 1.
examples_text(examples) ==
  [k \in 1..Len(examples) |->
     [number |-> k, confidence |-> Fmt2(examples[k].confidence),
      icd_code |-> examples[k].icd_code,
      icd_description |-> examples[k].icd_description,
      achi_code |-> examples[k].achi_code,
      achi_description |-> examples[k].achi_description,
      relationship |-> examples[k].relationship]]

similar_examples_prompt(icd_data, achi_data, examples) ==
  [template |-> "similar_examples",
   examples_text |-> examples_text(examples),
   icd_code |-> icd_data.code, icd_description |-> icd_data.description,
   icd_category |-> icd_data.category,
   achi_code |-> achi_data.code,
   achi_short_description |-> achi_data.short_description,
   achi_category |-> achi_data.category]

\* hierarchical_info and the prompt around it; the MAPPING EXAMPLES line is
\* added only for notes that are neither None nor empty.
hierarchical_prompt(icd_code, icd_desc, achi_code, achi_desc, context) ==
  [template |-> "hierarchical",
   icd_code |-> icd_code, icd_desc |-> icd_desc,
   icd_chapter |-> context.icd_chapter,
   icd_chapter_name |-> context.icd_chapter_name,
   achi_code |-> achi_code, achi_desc |-> achi_desc,
   achi_main_category |-> context.achi_main_category,
   achi_main_name |-> context.achi_main_name,
   achi_sub_category |-> context.achi_sub_category,
   mapping_found |-> IF context.category_match THEN "Yes" ELSE "No",
   mapping_examples |-> IF Truthy(context.mapping_notes)
                        THEN context.mapping_notes ELSE None]

\* Outcome of one return statement of validate: the dict returned, the
\* return statement taken, whether a chat-completion request was sent, and
\* the cache as the call leaves it.
\* A cache hit that relabels the entry it returns.
cache_hit_relabelled(cache_key) ==
  [result |-> DictSet(cache[cache_key], "source", "cache"), tier |-> "cache",
   oracle |-> FALSE, cache |-> cache]

cache_hit(cache_key) ==
  [result |-> cache[cache_key], tier |-> "cache", oracle |-> FALSE, cache |-> cache]

\* A not-found answer that is stored in the cache like the other answers.
icd_not_found_cached(cache_key, icd_code) ==
  LET result == [is_valid |-> FALSE,
                 reasoning |-> "ICD code " \o icd_code \o " not found in database",
                 confidence |-> ZeroConfidence,
                 certainty_explanation |-> "Code not found",
                 source |-> "error",
                 similar_examples_count |-> 0]
  IN [result |-> result, tier |-> "icd_not_found", oracle |-> FALSE,
      cache |-> DictSet(cache, cache_key, result)]

icd_not_found(cache_key, icd_code) ==
  [result |-> [is_valid |-> FALSE,
               reasoning |-> "ICD code " \o icd_code \o " not found in database",
               confidence |-> ZeroConfidence,
               certainty_explanation |-> "Code not found",
               source |-> "error",
               similar_examples_count |-> 0],
   tier |-> "icd_not_found", oracle |-> FALSE, cache |-> cache]

achi_not_found(cache_key, achi_code) ==
  [result |-> [is_valid |-> FALSE,
               reasoning |-> "ACHI code " \o achi_code \o " not found in database",
               confidence |-> ZeroConfidence,
               certainty_explanation |-> "Code not found",
               source |-> "error",
               similar_examples_count |-> 0],
   tier |-> "achi_not_found", oracle |-> FALSE, cache |-> cache]

\* An exact match that still sends the pair to the chat model.
database_exact_asks_model(cache_key, icd_data, achi_data, exact_match) ==
  LET result == [is_valid |-> TRUE,
                 reasoning |-> exact_match.relationship,
                 confidence |-> FullConfidence,
                 certainty_explanation |-> "Exact match found in validated database",
                 source |-> "database_exact",
                 similar_examples_count |-> 0,
                 icd_description |-> icd_data.description,
                 achi_description |-> achi_data.short_description]
  IN [result |-> result, tier |-> "database_exact", oracle |-> TRUE,
      request |-> chat_request(pure_ai_prompt(icd_data, achi_data)),
      cache |-> DictSet(cache, cache_key, result)]

database_exact(cache_key, icd_data, achi_data, exact_match) ==
  LET result == [is_valid |-> TRUE,
                 reasoning |-> exact_match.relationship,
                 confidence |-> FullConfidence,
                 certainty_explanation |-> "Exact match found in validated database",
                 source |-> "database_exact",
                 similar_examples_count |-> 0,
                 icd_description |-> icd_data.description,
                 achi_description |-> achi_data.short_description]
  IN [result |-> result, tier |-> "database_exact", oracle |-> FALSE,
      cache |-> DictSet(cache, cache_key, result)]

\* An error dict that does not carry the text of the exception.
api_error_without_cause(cause) ==
  [is_valid |-> FALSE,
   reasoning |-> "API Error",
   confidence |-> ZeroConfidence,
   certainty_explanation |-> "Error calling AI model",
   source |-> "error"]

api_error(cause) ==
  [is_valid |-> FALSE,
   reasoning |-> "API Error: " \o cause,
   confidence |-> ZeroConfidence,
   certainty_explanation |-> "Error calling AI model",
   source |-> "error"]

\* The examples method reporting the limit of the query, not the number of
\* examples it was given.
validate_with_similar_examples_limit(icd_data, achi_data, examples, reply) ==
  IF reply.ok
  THEN DictSet(DictSet(reply.content, "source", "ai_with_examples"),
               "similar_examples_count", SimilarLimit)
  ELSE DictSet(api_error(reply.cause), "similar_examples_count", 0)

validate_with_similar_examples(icd_data, achi_data, examples, reply) ==
  IF reply.ok
  THEN DictSet(DictSet(reply.content, "source", "ai_with_examples"),
               "similar_examples_count", Len(examples))
  ELSE DictSet(api_error(reply.cause), "similar_examples_count", 0)

validate_pure_ai(icd_data, achi_data, reply) ==
  IF reply.ok
  THEN DictSet(DictSet(reply.content, "source", "ai_inference"),
               "similar_examples_count", 0)
  ELSE DictSet(api_error(reply.cause), "similar_examples_count", 0)

validate_with_hierarchical_context(icd_code, icd_desc, achi_code, achi_desc, context, reply) ==
  IF reply.ok
  THEN DictSet(DictSet(reply.content, "source", "ai_hierarchical"),
               "hierarchical_context", TRUE)
  ELSE DictSet(api_error(reply.cause), "hierarchical_context", FALSE)

\* Steps 3 and 4 of validate: the AI answer, with the descriptions added,
\* stored in the cache under the pair's key.
ai_validation(cache_key, icd_data, achi_data, reply) ==
  LET similar_examples ==
        get_similar_examples(icd_data.category, achi_data.category, SimilarLimit)
      answer == IF similar_examples # <<>>
                THEN validate_with_similar_examples(icd_data, achi_data,
                                                    similar_examples, reply)
                ELSE validate_pure_ai(icd_data, achi_data, reply)
      result == DictSet(DictSet(answer, "icd_description", icd_data.description),
                        "achi_description", achi_data.short_description)
  IN [result |-> result,
      tier |-> IF similar_examples # <<>> THEN "ai_with_examples" ELSE "ai_inference",
      oracle |-> TRUE,
      request |-> chat_request(
                    IF similar_examples # <<>>
                    THEN similar_examples_prompt(icd_data, achi_data, similar_examples)
                    ELSE pure_ai_prompt(icd_data, achi_data)),
      cache |-> DictSet(cache, cache_key, result)]

\* validate with the procedure code looked up before the diagnosis code.
validate_achi_first(icd_code, achi_code, reply) ==
  LET cache_key == get_cache_key(icd_code, achi_code)
      icd_data == get_icd_with_category(icd_code)
      achi_data == get_achi_with_category(achi_code)
      exact_match == get_exact_match(icd_code, achi_code)
  IN IF cache_key \in DOMAIN cache THEN cache_hit(cache_key)
     ELSE IF achi_data = None THEN achi_not_found(cache_key, achi_code)
     ELSE IF icd_data = None THEN icd_not_found(cache_key, icd_code)
     ELSE IF exact_match # None
          THEN database_exact(cache_key, icd_data, achi_data, exact_match)
     ELSE ai_validation(cache_key, icd_data, achi_data, reply)

validate(icd_code, achi_code, reply) ==
  LET cache_key == get_cache_key(icd_code, achi_code)
      icd_data == get_icd_with_category(icd_code)
      achi_data == get_achi_with_category(achi_code)
      exact_match == get_exact_match(icd_code, achi_code)
  IN IF cache_key \in DOMAIN cache THEN cache_hit(cache_key)
     ELSE IF icd_data = None THEN icd_not_found(cache_key, icd_code)
     ELSE IF achi_data = None THEN achi_not_found(cache_key, achi_code)
     ELSE IF exact_match # None
          THEN database_exact(cache_key, icd_data, achi_data, exact_match)
     ELSE ai_validation(cache_key, icd_data, achi_data, reply)

\* `if context and context.get('hierarchical_context')`
ContextFlagged(context) ==
  /\ context # None
  /\ "hierarchical_context" \in DOMAIN context
  /\ context.hierarchical_context

\* validate_code_pair that uses the context only when the pair is not cached.
validate_code_pair_after_cache(icd_code, icd_desc, achi_code, achi_desc, context, reply) ==
  IF ContextFlagged(context) /\ get_cache_key(icd_code, achi_code) \notin DOMAIN cache
  THEN [result |-> validate_with_hierarchical_context(icd_code, icd_desc, achi_code,
                                                      achi_desc, context, reply),
        tier |-> "ai_hierarchical", oracle |-> TRUE,
        request |-> chat_request(hierarchical_prompt(icd_code, icd_desc, achi_code,
                                                     achi_desc, context)),
        cache |-> cache]
  ELSE validate(icd_code, achi_code, reply)

validate_code_pair(icd_code, icd_desc, achi_code, achi_desc, context, reply) ==
  IF ContextFlagged(context)
  THEN [result |-> validate_with_hierarchical_context(icd_code, icd_desc, achi_code,
                                                      achi_desc, context, reply),
        tier |-> "ai_hierarchical", oracle |-> TRUE,
        request |-> chat_request(hierarchical_prompt(icd_code, icd_desc, achi_code,
                                                     achi_desc, context)),
        cache |-> cache]
  ELSE validate(icd_code, achi_code, reply)

\* ------------------------------------------------------------------ inputs
\* Arguments a caller of save_user_confirmed_relationship can pass: a text,
\* a confidence, and the category labels of the two codes.
CategoryOfIcd(icd_code) == (CHOOSE r \in IcdCatalogue : r.code = icd_code).category
CategoryOfAchi(achi_code) == (CHOOSE r \in AchiCatalogue : r.code = achi_code).category
SaveRelationships == {"confirmed by user"}
SaveConfidences == {90}
SaveIcdInputs == {"K02.9"}

\* Contexts a caller of validate_code_pair can pass: none, the context
\* validate_with_hierarchy builds (flag set), and a context without the flag.
HierarchyContext ==
  [icd_chapter |-> [value |-> "K00-K93"],
   icd_chapter_name |-> [value |-> "Diseases of the digestive system"],
   achi_main_category |-> [value |-> "06"],
   achi_main_name |-> [value |-> "Dental services"],
   achi_sub_category |-> [value |-> "Extraction"], category_match |-> TRUE,
   mapping_notes |-> [value |-> "dental"], hierarchical_context |-> TRUE]
UnflaggedContext ==
  [icd_chapter |-> [value |-> "K00-K93"],
   icd_chapter_name |-> [value |-> "Diseases of the digestive system"],
   achi_main_category |-> [value |-> "06"],
   achi_main_name |-> [value |-> "Dental services"],
   achi_sub_category |-> [value |-> "Extraction"], category_match |-> TRUE,
   mapping_notes |-> [value |-> "dental"]]
Contexts == {None, HierarchyContext, UnflaggedContext}

\* The replies that can matter to a call: all of them when the call sends a
\* request, one (never read) when it does not.
AnyReply == CHOOSE r \in OracleReplies : TRUE
RepliesFor(sends) == IF sends THEN OracleReplies ELSE {AnyReply}

\* A row loaded by the sample generator before the service starts.
InitialRow ==
  [id |-> 1, icd_code |-> "K04.7", icd_description |-> "Periapical abscess",
   icd_category |-> "Dental", achi_code |-> "52318-00",
   achi_description |-> "Tooth extraction", achi_category |-> "Dental",
   relationship |-> "Extraction treats periapical abscess",
   confidence |-> 95, category |-> "Dental|Dental", source |-> "ai_generated"]

EmptyDict == [k \in {} |-> None]

\* A request slot of the endpoint before a client has used it.
NoRequest ==
  [at |-> "none", icd_code |-> "", achi_code |-> "", during |-> {},
   tier |-> "", asked |-> FALSE, wrote |-> FALSE, response |-> None,
   result |-> None, connected |-> FALSE, rows_before |-> {}, rows_after |-> {},
   order |-> 0]

\* ------------------------------------------------------------ result kinds
IsNotFound(r) ==
  "certainty_explanation" \in DOMAIN r /\ r.certainty_explanation = "Code not found"

IsOracleError(r) ==
  /\ "certainty_explanation" \in DOMAIN r
  /\ r.certainty_explanation = "Error calling AI model"
  /\ r.source = "error"


\* ------------------------------------------------------- hierarchy tables
\* A nullable value (a column that can be NULL, a Python value that can be
\* None) is None or Val(x).
Val(x) == [value |-> x]

\* achi_main_categories and achi_sub_categories as parse_new_achi loads them.
achi_main_categories ==
  { [code |-> "06", name |-> "Dental services"],
    [code |-> "11", name |-> "Respiratory system"] }
achi_sub_categories ==
  { [id |-> 1, name |-> "Extraction", main_category_code |-> "06"],
    [id |-> 2, name |-> "Ventilatory support", main_category_code |-> "11"] }

\* Rows achi_codes_v2 can hold for a code: both links set, no main category,
\* no sub-category, neither, and a main-category code that no row of
\* achi_main_categories has (foreign keys are not enforced).
V2Rows(code, description, main_code, sub_id) ==
  { [code |-> code, description |-> description,
     sub_category_id |-> s, main_category_code |-> m] :
      s \in {None, Val(sub_id)}, m \in {None, Val(main_code), Val("99")} }

V2Tables ==
  { a \cup b : a \in {{}} \cup {{r} : r \in V2Rows("52318-00", "Extraction of tooth", "06", 1)},
               b \in {{}, {[code |-> "92209-00",
                            description |-> "Non-invasive ventilatory support",
                            sub_category_id |-> Val(2),
                            main_category_code |-> Val("11")]}} }

\* Rows import_icd_achi_mapping writes; mapping_confidence defaults to 0.95.
DentalMapping ==
  [icd_chapter |-> "K00-K93", icd_chapter_name |-> "Diseases of the digestive system",
   achi_main_category_code |-> "06", achi_main_category_name |-> "Dental services",
   mapping_confidence |-> 60, notes |-> Val("[\"caries - extraction\"]")]
RespiratoryMapping ==
  [icd_chapter |-> "J00-J99", icd_chapter_name |-> "Diseases of the respiratory system",
   achi_main_category_code |-> "11", achi_main_category_name |-> "Respiratory system",
   mapping_confidence |-> 95, notes |-> None]
MappingTables ==
  {<<>>, <<DentalMapping>>, <<RespiratoryMapping>>, <<RespiratoryMapping, DentalMapping>>}

\* The tables as the service finds them, with the chat client configured.
HierarchyLoaded ==
  /\ icd_achi_category_mapping = <<RespiratoryMapping, DentalMapping>>
  /\ achi_codes_v2 = {[code |-> "92209-00",
                       description |-> "Non-invasive ventilatory support",
                       sub_category_id |-> Val(2),
                       main_category_code |-> Val("11")]}
  /\ ai_validator = TRUE

\* --------------------------------------------------------------- behaviour
\* seen[pair] is what the last validate call for the pair returned, kept
\* while the database is unchanged (fresh) and, for a not-found answer, also
\* across one change of the database (not fresh); ret describes the last call:
\* its arguments, the return statement taken, the reply of the chat model
\* when a request was sent, and what held when the call was made.
NoCall ==
  [op |-> "none", icd_code |-> "", achi_code |-> "", tier |-> "",
   oracle |-> FALSE, flagged |-> FALSE, hit |-> FALSE, calls_before |-> 0,
   reply |-> None, result |-> None, prior |-> None, fresh |-> FALSE,
   args |-> None, context |-> None, request |-> None]

Init ==
  /\ icd10am_codes = {r \in IcdCatalogue : r.code = "K02.9"}
  /\ achi_codes = {r \in AchiCatalogue : r.code = "52318-00"}
  /\ valid_relationships = <<InitialRow>>
  /\ cache = EmptyDict
  /\ oracleCalls = 0
  /\ seen = EmptyDict
  /\ ret = NoCall
  /\ requests = [i \in 1..MaxRequests |-> NoRequest]
  /\ validation_test_log = EmptyDict
  /\ HierarchyLoaded
  /\ answers = EmptyDict

Prior(icd_code, achi_code) ==
  IF <<icd_code, achi_code>> \in DOMAIN seen
  THEN seen[<<icd_code, achi_code>>] ELSE [result |-> None, fresh |-> FALSE]

\* A change of the database: the not-found answers given since the previous
\* change are remembered, marked as given before it; the rest is forgotten.
Stale ==
  [k \in {j \in DOMAIN seen : seen[j].fresh /\ IsNotFound(seen[j].result)}
     |-> [result |-> seen[k].result, fresh |-> FALSE]]

Called(op, icd_code, achi_code, context, reply, out) ==
  [op |-> op, icd_code |-> icd_code, achi_code |-> achi_code,
   tier |-> out.tier, oracle |-> out.oracle, flagged |-> ContextFlagged(context),
   hit |-> get_cache_key(icd_code, achi_code) \in DOMAIN cache,
   calls_before |-> oracleCalls,
   reply |-> IF out.oracle THEN reply ELSE None,
   result |-> out.result,
   prior |-> Prior(icd_code, achi_code).result,
   fresh |-> Prior(icd_code, achi_code).fresh,
   args |-> None,
   context |-> IF ContextFlagged(context) THEN context ELSE None,
   request |-> IF out.oracle THEN out.request ELSE None]

\* A validate that also records the answer of the chat model as a row of
\* valid_relationships.
ValidateAndRecord(icd_code, achi_code) ==
  \E reply \in RepliesFor(validate(icd_code, achi_code, AnyReply).oracle) :
    LET out == validate(icd_code, achi_code, reply)
    IN /\ out.oracle => oracleCalls < MaxOracleCalls
       /\ cache' = out.cache
       /\ oracleCalls' = oracleCalls + (IF out.oracle THEN 1 ELSE 0)
       /\ seen' = DictSet(seen, <<icd_code, achi_code>>,
                          [result |-> out.result, fresh |-> TRUE])
       /\ ret' = Called("validate", icd_code, achi_code, None, reply, out)
       /\ valid_relationships' =
            IF out.oracle /\ Len(valid_relationships) < MaxRows
            THEN Append(valid_relationships,
                        [InitialRow EXCEPT !.id = Len(valid_relationships) + 1,
                                           !.icd_code = icd_code,
                                           !.achi_code = achi_code])
            ELSE valid_relationships
       /\ UNCHANGED <<icd10am_codes, achi_codes, server, hierarchy, answers>>

\* rag_validator.validate(icd_code, achi_code)
Validate(icd_code, achi_code) ==
  \E reply \in RepliesFor(validate(icd_code, achi_code, AnyReply).oracle) :
    LET out == validate(icd_code, achi_code, reply)
    IN /\ out.oracle => oracleCalls < MaxOracleCalls
       /\ cache' = out.cache
       /\ oracleCalls' = oracleCalls + (IF out.oracle THEN 1 ELSE 0)
       /\ seen' = DictSet(seen, <<icd_code, achi_code>>,
                          [result |-> out.result, fresh |-> TRUE])
       /\ ret' = Called("validate", icd_code, achi_code, None, reply, out)
       /\ UNCHANGED <<icd10am_codes, achi_codes, valid_relationships, server, hierarchy, answers>>

\* rag_validator.validate_code_pair(icd_code, icd_desc, achi_code, achi_desc,
\* context); without the flag the call is the validate call it delegates to.
ValidateCodePair(icd_code, icd_desc, achi_code, achi_desc, context) ==
  \E reply \in RepliesFor(validate_code_pair(icd_code, icd_desc, achi_code,
                                             achi_desc, context, AnyReply).oracle) :
    LET out == validate_code_pair(icd_code, icd_desc, achi_code, achi_desc,
                                  context, reply)
    IN /\ out.oracle => oracleCalls < MaxOracleCalls
       /\ cache' = out.cache
       /\ oracleCalls' = oracleCalls + (IF out.oracle THEN 1 ELSE 0)
       /\ seen' = IF ContextFlagged(context) THEN seen
                  ELSE DictSet(seen, <<icd_code, achi_code>>,
                               [result |-> out.result, fresh |-> TRUE])
       /\ ret' = Called(IF ContextFlagged(context) THEN "validate_code_pair"
                        ELSE "validate", icd_code, achi_code, context, reply, out)
       /\ UNCHANGED <<icd10am_codes, achi_codes, valid_relationships, server, hierarchy, answers>>

\* A save that does not look the codes up: it inserts the row and returns
\* True whatever the registry holds.
save_user_confirmed_relationship_unchecked(icd_code, achi_code, relationship, confidence, icd_category, achi_category) ==
  [returned |-> TRUE,
   rows |-> Append(valid_relationships,
             [id |-> Len(valid_relationships) + 1,
              icd_code |-> icd_code,
              icd_description |-> "",
              icd_category |-> icd_category,
              achi_code |-> achi_code,
              achi_description |-> "",
              achi_category |-> achi_category,
              relationship |-> relationship,
              confidence |-> confidence,
              category |-> icd_category \o "|" \o achi_category,
              source |-> "user_confirmed"])]

\* db_manager.save_user_confirmed_relationship(...)
save_user_confirmed_relationship(icd_code, achi_code, relationship, confidence, icd_category, achi_category) ==
  LET icd_data == get_icd_with_category(icd_code)
      achi_data == get_achi_with_category(achi_code)
  IN IF icd_data = None \/ achi_data = None
     THEN [returned |-> FALSE, rows |-> valid_relationships]
     ELSE [returned |-> TRUE,
           rows |-> Append(valid_relationships,
                     [id |-> Len(valid_relationships) + 1,
                      icd_code |-> icd_code,
                      icd_description |-> icd_data.description,
                      icd_category |-> icd_category,
                      achi_code |-> achi_code,
                      achi_description |-> achi_data.short_description,
                      achi_category |-> achi_category,
                      relationship |-> relationship,
                      confidence |-> confidence,
                      category |-> icd_category \o "|" \o achi_category,
                      source |-> "user_confirmed"])]

SaveUserConfirmed(icd_code, achi_code) ==
  \E relationship \in SaveRelationships, confidence \in SaveConfidences :
    LET out == save_user_confirmed_relationship(icd_code, achi_code, relationship,
                                                confidence, CategoryOfIcd(icd_code),
                                                CategoryOfAchi(achi_code))
    IN /\ out.returned => Len(valid_relationships) < MaxRows
       /\ valid_relationships' = out.rows
       /\ seen' = IF out.returned THEN Stale ELSE seen
       /\ ret' = [NoCall EXCEPT !.op = "save", !.icd_code = icd_code,
                                !.achi_code = achi_code,
                                !.result = [returned |-> out.returned]]
       /\ UNCHANGED <<icd10am_codes, achi_codes, cache, oracleCalls, server, hierarchy, answers>>

\* The import script loads one more row of the ICD workbook.
ImportIcdCode(row) ==
  /\ \A r \in icd10am_codes : r.code # row.code
  /\ icd10am_codes' = icd10am_codes \cup {row}
  /\ seen' = Stale
  /\ ret' = [NoCall EXCEPT !.op = "import_icd", !.icd_code = row.code]
  /\ UNCHANGED <<achi_codes, valid_relationships, cache, oracleCalls, server, hierarchy, answers>>

\* The import script loads one more row of the ACHI workbook.
ImportAchiCode(row) ==
  /\ \A r \in achi_codes : r.code # row.code
  /\ achi_codes' = achi_codes \cup {row}
  /\ seen' = Stale
  /\ ret' = [NoCall EXCEPT !.op = "import_achi", !.achi_code = row.code]
  /\ UNCHANGED <<icd10am_codes, valid_relationships, cache, oracleCalls, server, hierarchy, answers>>

Next ==
  \/ \E d \in IcdInputs, p \in AchiInputs : Validate(d, p)
  \/ \E d \in HierarchyIcdInputs, p \in AchiInputs, c \in Contexts :
       ValidateCodePair(d, "Dental caries", p, "Tooth extraction", c)
  \/ \E d \in SaveIcdInputs, p \in AchiInputs : SaveUserConfirmed(d, p)
  \/ \E row \in IcdCatalogue : ImportIcdCode(row)
  \/ \E row \in AchiCatalogue : ImportAchiCode(row)

Spec == Init /\ [][Next]_vars

RequiredFields == {"is_valid", "reasoning", "confidence", "certainty_explanation"}

\* ------------------------------------------------------------ /api/validate
\* Codes the clients of the endpoint send.
ServerIcdInputs == IcdInputs
ServerAchiInputs == AchiInputs

\* validate_codes is a coroutine without an await: the chat client it calls
\* is the synchronous one, so the event loop runs no other handler while a
\* handler waits for the chat model.
LoopIsFreeWhileAwaiting == TRUE

LoopIsFree == \A j \in DOMAIN requests : requests[j].at # "oracle"

\* SELECT * FROM validation_test_log WHERE icd_code = ? AND achi_code = ?,
\* on the table as it is and on a table given.
LogRowsOf(log, icd_code, achi_code) ==
  {log[k] : k \in {j \in 1..Len(log) : /\ log[j].icd_code = icd_code
                                       /\ log[j].achi_code = achi_code}}
LogRows(icd_code, achi_code) == LogRowsOf(validation_test_log, icd_code, achi_code)

\* The row the endpoint builds from a result; test_id is the AUTOINCREMENT
\* key and confidence * 100 is the confidence in hundredths.
log_row(icd_code, achi_code, result) ==
  [test_id |-> Len(validation_test_log) + 1,
   icd_code |-> icd_code, achi_code |-> achi_code,
   ai_decision |-> IF result.is_valid THEN "Valid" ELSE "Invalid",
   ai_confidence_percent |-> result.confidence,
   ai_reasoning |-> result.reasoning]

\* The logging step with INSERT OR REPLACE: the row of the pair is deleted
\* and a new one is appended under the next key.
log_test_result_replace(icd_code, achi_code, result, connected) ==
  IF /\ connected
     /\ {"is_valid", "confidence", "reasoning"} \subseteq DOMAIN result
  THEN Append(SelectSeq(validation_test_log,
                        LAMBDA r : ~(r.icd_code = icd_code /\ r.achi_code = achi_code)),
              log_row(icd_code, achi_code, result))
  ELSE validation_test_log

\* INSERT OR IGNORE INTO validation_test_log, inside its own try/except:
\* UNIQUE(icd_code, achi_code) makes the insert a no-op when the pair has a
\* row; a database that cannot be opened or written (connected is false)
\* and a result without one of the three fields read (KeyError) raise
\* inside the try, which is caught and printed.
log_test_result(icd_code, achi_code, result, connected) ==
  IF /\ connected
     /\ {"is_valid", "confidence", "reasoning"} \subseteq DOMAIN result
     /\ LogRows(icd_code, achi_code) = {}
  THEN Append(validation_test_log, log_row(icd_code, achi_code, result))
  ELSE validation_test_log

\* ValidationResponse(...) built from the result; a missing field raises
\* KeyError, which the handler turns into HTTP 500.
validation_response(icd_code, achi_code, result) ==
  IF (RequiredFields \cup {"source", "similar_examples_count"}) \subseteq DOMAIN result
  THEN [status |-> 200,
        icd_code |-> icd_code,
        icd_description |-> IF "icd_description" \in DOMAIN result
                            THEN result.icd_description ELSE "",
        achi_code |-> achi_code,
        achi_description |-> IF "achi_description" \in DOMAIN result
                             THEN result.achi_description ELSE "",
        is_valid |-> result.is_valid,
        reasoning |-> result.reasoning,
        confidence |-> result.confidence,
        certainty_explanation |-> result.certainty_explanation,
        source |-> result.source,
        similar_examples_count |-> result.similar_examples_count]
  ELSE [status |-> 500, detail |-> "Validation error"]

\* The service with the workbooks imported.
ServerInit ==
  /\ icd10am_codes = IcdCatalogue
  /\ achi_codes = AchiCatalogue
  /\ valid_relationships = <<InitialRow>>
  /\ cache = EmptyDict
  /\ oracleCalls = 0
  /\ seen = EmptyDict
  /\ ret = NoCall
  /\ requests = [i \in 1..MaxRequests |-> NoRequest]
  /\ validation_test_log = EmptyDict
  /\ HierarchyLoaded
  /\ answers = EmptyDict

\* A client sends POST /api/validate; during is the set of requests that were
\* received and not yet answered at that moment.
Receive(i, icd_code, achi_code) ==
  /\ requests[i].at = "none"
  /\ \A j \in 1..(i - 1) : requests[j].at # "none"
  /\ requests' = [requests EXCEPT ![i] =
       [NoRequest EXCEPT !.at = "received", !.icd_code = icd_code,
                         !.achi_code = achi_code,
                         !.during = {j \in DOMAIN requests :
                                       requests[j].at \in {"received", "oracle"}}]]
  /\ UNCHANGED <<icd10am_codes, achi_codes, valid_relationships, cache,
                 oracleCalls, seen, ret, validation_test_log, hierarchy, answers>>

\* The number of requests answered so far; a request records as order its
\* place among the answered ones, the result validate gave it, whether the
\* logging step reached the database, and the rows of its pair in the log
\* before and after that step.
Answered == Cardinality({j \in DOMAIN requests : requests[j].at = "done"})

\* The event loop starts validate_codes for a received request: validate
\* runs to its return when it needs no answer of the chat model, and to the
\* chat-completion request otherwise.
HandleValidate(i) ==
  LET icd_code == requests[i].icd_code
      achi_code == requests[i].achi_code
      out == validate(icd_code, achi_code, AnyReply)
  IN /\ requests[i].at = "received"
     /\ LoopIsFree
     /\ IF out.oracle
        THEN /\ requests' = [requests EXCEPT ![i].at = "oracle", ![i].asked = TRUE]
             /\ oracleCalls' = oracleCalls + 1
             /\ UNCHANGED <<cache, validation_test_log>>
        ELSE \E connected \in BOOLEAN :
             /\ cache' = out.cache
             /\ validation_test_log' =
                  log_test_result(icd_code, achi_code, out.result, connected)
             /\ requests' = [requests EXCEPT
                  ![i].at = "done", ![i].tier = out.tier,
                  ![i].wrote = (out.cache # cache),
                  ![i].result = out.result,
                  ![i].connected = connected,
                  ![i].rows_before = LogRows(icd_code, achi_code),
                  ![i].rows_after =
                    LogRowsOf(log_test_result(icd_code, achi_code, out.result,
                                              connected), icd_code, achi_code),
                  ![i].order = Answered + 1,
                  ![i].response = validation_response(icd_code, achi_code, out.result)]
             /\ UNCHANGED oracleCalls
     /\ UNCHANGED <<icd10am_codes, achi_codes, valid_relationships, seen, ret,
                    hierarchy, answers>>

\* The chat-completion request of a waiting handler returns or raises; the
\* handler stores the result in the cache, logs it and answers.
OracleReturns(i) ==
  \E reply \in OracleReplies, connected \in BOOLEAN :
    LET icd_code == requests[i].icd_code
        achi_code == requests[i].achi_code
        out == ai_validation(get_cache_key(icd_code, achi_code),
                             get_icd_with_category(icd_code),
                             get_achi_with_category(achi_code), reply)
    IN /\ requests[i].at = "oracle"
       /\ cache' = out.cache
       /\ validation_test_log' =
            log_test_result(icd_code, achi_code, out.result, connected)
       /\ requests' = [requests EXCEPT
            ![i].at = "done", ![i].tier = out.tier, ![i].wrote = TRUE,
            ![i].result = out.result,
            ![i].connected = connected,
            ![i].rows_before = LogRows(icd_code, achi_code),
            ![i].rows_after =
              LogRowsOf(log_test_result(icd_code, achi_code, out.result,
                                        connected), icd_code, achi_code),
            ![i].order = Answered + 1,
            ![i].response = validation_response(icd_code, achi_code, out.result)]
       /\ UNCHANGED <<icd10am_codes, achi_codes, valid_relationships,
                      oracleCalls, seen, ret, hierarchy, answers>>

ServerNext ==
  \/ \E i \in 1..MaxRequests, d \in ServerIcdInputs, p \in ServerAchiInputs :
       Receive(i, d, p)
  \/ \E i \in 1..MaxRequests : HandleValidate(i)
  \/ \E i \in 1..MaxRequests : OracleReturns(i)

ServerSpec == ServerInit /\ [][ServerNext]_vars


\* ------------------------------------------------------ Relationship Store
\* The validator with a store that user confirmations fill for any pair of
\* codes the clients know.
StoreNext ==
  \/ \E d \in IcdInputs, p \in AchiInputs : Validate(d, p)
  \/ \E d \in IcdInputs, p \in AchiInputs : SaveUserConfirmed(d, p)
  \/ \E row \in IcdCatalogue : ImportIcdCode(row)
  \/ \E row \in AchiCatalogue : ImportAchiCode(row)

StoreSpec == Init /\ [][StoreNext]_vars

\* Rows the sample generator writes: two Dental/Dental rows of confidence
\* 0.95 and 0.90 and one Dental/Respiratory row.
SampleRows ==
  { [InitialRow EXCEPT !.confidence = 95],
    [InitialRow EXCEPT !.confidence = 90,
                       !.relationship = "Extraction follows abscess drainage"],
    [InitialRow EXCEPT !.achi_code = "92209-00", !.achi_description = "NIV support",
                       !.achi_category = "Respiratory",
                       !.category = "Dental|Respiratory", !.confidence = 80,
                       !.relationship = "Ventilation during dental sedation"] }

\* A store of up to MaxStoreRows generated rows, ids in insertion order.
GeneratedStores ==
  UNION { { [i \in 1..n |-> [rows[i] EXCEPT !.id = i]] :
              rows \in [1..n -> SampleRows] } : n \in 0..MaxStoreRows }

QueryInit ==
  /\ icd10am_codes = IcdCatalogue
  /\ achi_codes = AchiCatalogue
  /\ valid_relationships \in GeneratedStores
  /\ cache = EmptyDict
  /\ oracleCalls = 0
  /\ seen = EmptyDict
  /\ ret = NoCall
  /\ requests = [i \in 1..MaxRequests |-> NoRequest]
  /\ validation_test_log = EmptyDict
  /\ HierarchyLoaded
  /\ answers = EmptyDict

\* db_manager.get_similar_examples(icd_category, achi_category, limit=5), as
\* validate calls it.
GetSimilarExamples(icd_category, achi_category) ==
  /\ ret' = [NoCall EXCEPT
       !.op = "get_similar_examples",
       !.args = [icd_category |-> icd_category, achi_category |-> achi_category,
                 limit |-> SimilarLimit],
       !.result = get_similar_examples(icd_category, achi_category, SimilarLimit)]
  /\ UNCHANGED <<icd10am_codes, achi_codes, valid_relationships, cache,
                 oracleCalls, seen, server, hierarchy, answers>>

QueryNext ==
  \E d \in IcdCatalogue, p \in AchiCatalogue :
    GetSimilarExamples(d.category, p.category)

QuerySpec == QueryInit /\ [][QueryNext]_vars


\* --------------------------------------------------------------- letter case
\* The validator called with codes as typed, in either letter case.
CaseNext ==
  \/ \E d \in CaseIcdInputs, p \in AchiInputs : Validate(d, p)
  \/ \E row \in IcdCatalogue : ImportIcdCode(row)
  \/ \E row \in AchiCatalogue : ImportAchiCode(row)

CaseSpec == Init /\ [][CaseNext]_vars


\* --------------------------------------------------- HierarchicalValidator
\* A code is the sequence of its characters.
UpperLetters ==
  <<"A", "B", "C", "D", "E", "F", "G", "H", "I", "J", "K", "L", "M",
    "N", "O", "P", "Q", "R", "S", "T", "U", "V", "W", "X", "Y", "Z">>
LowerLetters ==
  <<"a", "b", "c", "d", "e", "f", "g", "h", "i", "j", "k", "l", "m",
    "n", "o", "p", "q", "r", "s", "t", "u", "v", "w", "x", "y", "z">>

\* str.upper() of one character
upper(c) ==
  IF \E k \in 1..26 : LowerLetters[k] = c
  THEN UpperLetters[CHOOSE k \in 1..26 : LowerLetters[k] = c]
  ELSE c

RECURSIVE Str(_)
Str(chars) == IF chars = <<>> THEN "" ELSE Head(chars) \o Str(Tail(chars))

chapter_mapping ==
  ("A" :> "A00-B99") @@ ("B" :> "A00-B99") @@ ("C" :> "C00-D48") @@
  ("D" :> "C00-D48") @@ ("E" :> "E00-E89") @@ ("F" :> "F01-F99") @@
  ("G" :> "G00-G99") @@ ("H" :> "H00-H95") @@ ("I" :> "I00-I99") @@
  ("J" :> "J00-J99") @@ ("K" :> "K00-K93") @@ ("L" :> "L00-L99") @@
  ("M" :> "M00-M99") @@ ("N" :> "N00-N99") @@ ("O" :> "O00-O9A") @@
  ("P" :> "P00-P96") @@ ("Q" :> "Q00-Q99") @@ ("R" :> "R00-R94") @@
  ("S" :> "S00-T98") @@ ("T" :> "S00-T98") @@ ("U" :> "U00-U99") @@
  ("V" :> "V01-Y98") @@ ("W" :> "V01-Y98") @@ ("X" :> "V01-Y98") @@
  ("Y" :> "V01-Y98") @@ ("Z" :> "Z00-Z99")

\* SELECT icd_chapter_name ... WHERE icd_chapter = ? LIMIT 1
chapter_name_of(chapter_range) ==
  LET hits == {i \in 1..Len(icd_achi_category_mapping) :
                 icd_achi_category_mapping[i].icd_chapter = chapter_range}
  IN IF hits = {} THEN None
     ELSE Val(icd_achi_category_mapping[SetMin(hits)].icd_chapter_name)

\* get_icd_chapter that looks the first character up as it is written.
get_icd_chapter_as_written(icd_code) ==
  IF icd_code = <<>> THEN <<None, None>>
  ELSE LET letter == icd_code[1]
           chapter_range == IF letter \in DOMAIN chapter_mapping
                            THEN chapter_mapping[letter]
                            ELSE letter \o "00-" \o letter \o "99"
           chapter_name == chapter_name_of(chapter_range)
       IN <<Val(chapter_range),
            IF chapter_name # None THEN chapter_name
            ELSE Val("Diseases starting with " \o letter)>>

get_icd_chapter(icd_code) ==
  IF icd_code = <<>> THEN <<None, None>>
  ELSE LET letter == upper(icd_code[1])
           chapter_range == IF letter \in DOMAIN chapter_mapping
                            THEN chapter_mapping[letter]
                            ELSE letter \o "00-" \o letter \o "99"
           chapter_name == chapter_name_of(chapter_range)
       IN <<Val(chapter_range),
            IF chapter_name # None THEN chapter_name
            ELSE Val("Diseases starting with " \o letter)>>

\* The columns of a LEFT JOIN: those of the joined row when the link is set
\* and a row has that key, NULL otherwise.
MainOf(ac) ==
  IF /\ ac.main_category_code # None
     /\ \E am \in achi_main_categories : am.code = ac.main_category_code.value
  THEN Val(CHOOSE am \in achi_main_categories : am.code = ac.main_category_code.value)
  ELSE None

SubOf(ac) ==
  IF /\ ac.sub_category_id # None
     /\ \E sc \in achi_sub_categories : sc.id = ac.sub_category_id.value
  THEN Val(CHOOSE sc \in achi_sub_categories : sc.id = ac.sub_category_id.value)
  ELSE None

\* The hierarchy query with inner joins: a code with a missing link has no
\* row in the result.
get_achi_hierarchy_inner_join(achi_code) ==
  IF \E ac \in achi_codes_v2 :
       ac.code = achi_code /\ MainOf(ac) # None /\ SubOf(ac) # None
  THEN LET ac == CHOOSE r \in achi_codes_v2 : r.code = achi_code
       IN <<Val(MainOf(ac).value.code), Val(MainOf(ac).value.name),
            Val(SubOf(ac).value.name), Val(ac.description)>>
  ELSE <<None, None, None, None>>

get_achi_hierarchy(achi_code) ==
  IF \E ac \in achi_codes_v2 : ac.code = achi_code
  THEN LET ac == CHOOSE r \in achi_codes_v2 : r.code = achi_code
           am == MainOf(ac)
           sc == SubOf(ac)
       IN <<IF am # None THEN Val(am.value.code) ELSE None,
            IF am # None THEN Val(am.value.name) ELSE None,
            IF sc # None THEN Val(sc.value.name) ELSE None,
            Val(ac.description)>>
  ELSE <<None, None, None, None>>

\* The row fetched is the tuple (icd_chapter_name, achi_main_category_name,
\* notes), here with its columns named; a NULL argument matches no row.
MappingHits(icd_chapter, achi_main_code) ==
  IF icd_chapter = None \/ achi_main_code = None THEN {}
  ELSE {i \in 1..Len(icd_achi_category_mapping) :
          /\ icd_achi_category_mapping[i].icd_chapter = icd_chapter.value
          /\ icd_achi_category_mapping[i].achi_main_category_code = achi_main_code.value}

get_category_mapping_info(icd_chapter, achi_main_code) ==
  LET hits == MappingHits(icd_chapter, achi_main_code)
  IN IF hits = {} THEN None
     ELSE LET row == icd_achi_category_mapping[SetMin(hits)]
          IN [icd_chapter_name |-> row.icd_chapter_name,
              achi_main_category_name |-> row.achi_main_category_name,
              notes |-> row.notes]

\* A value inside an f-string
Format(x) == IF x = None THEN "None" ELSE x.value

\* The fallback that answers with the confidence stored in the mapping row.
basic_validation_with_mapping_confidence(icd_code, achi_code, context) ==
  LET hits == MappingHits(context.icd_chapter, context.achi_main_category)
  IN IF context.category_match
     THEN <<TRUE, icd_achi_category_mapping[SetMin(hits)].mapping_confidence,
            "Category match: " \o Format(context.icd_chapter_name) \o " -> "
              \o Format(context.achi_main_name)>>
     ELSE <<FALSE, 95,
            "Category mismatch: " \o Format(context.icd_chapter_name) \o " <-> "
              \o Format(context.achi_main_name)>>

basic_validation(icd_code, achi_code, context) ==
  IF context.category_match
  THEN <<TRUE, 85,
         "Category match: " \o Format(context.icd_chapter_name) \o " -> "
           \o Format(context.achi_main_name)>>
  ELSE <<FALSE, 95,
         "Category mismatch: " \o Format(context.icd_chapter_name) \o " <-> "
           \o Format(context.achi_main_name)>>

\* Outcome of validate_with_hierarchy: the value returned (the dict of
\* validate_code_pair or the tuple of _basic_validation), the return
\* statement it comes from, the context built, and the request sent.
validate_with_hierarchy(icd_code, icd_desc, achi_code, achi_desc, reply) ==
  LET chapter == get_icd_chapter(icd_code)
      achi == get_achi_hierarchy(achi_code)
      mapping_info == get_category_mapping_info(chapter[1], achi[1])
      context == [icd_chapter |-> chapter[1],
                  icd_chapter_name |-> chapter[2],
                  achi_main_category |-> achi[1],
                  achi_main_name |-> achi[2],
                  achi_sub_category |-> achi[3],
                  category_match |-> mapping_info # None,
                  mapping_notes |-> IF mapping_info # None
                                    THEN mapping_info.notes ELSE None]
  IN IF ai_validator
     THEN LET flagged == DictSet(context, "hierarchical_context", TRUE)
              out == validate_code_pair(Str(icd_code), icd_desc, achi_code,
                                        achi_desc, flagged, reply)
          IN [result |-> out.result, context |-> flagged, oracle |-> out.oracle,
              request |-> out.request, tier |-> out.tier]
     ELSE [result |-> basic_validation(Str(icd_code), achi_code, context),
           context |-> context, oracle |-> FALSE, request |-> None,
           tier |-> "basic_validation"]

\* `is_valid, confidence, reasoning = result` as the callers write it: a
\* tuple of three items is unpacked into them; the dict of the AI tier is
\* iterated over its keys, which binds three key names when it has exactly
\* three keys and raises ValueError otherwise. None stands for ValueError.
unpack3(tier, result) ==
  IF tier = "basic_validation"
  THEN IF Len(result) = 3 THEN Val(result) ELSE None
  ELSE IF Cardinality(DOMAIN result) = 3 THEN Val(DOMAIN result) ELSE None

\* Codes given to the hierarchical validator: one per upper-case letter, a
\* lower-case one, one that starts with a digit, and the empty string.
ChapterCodes ==
  {<<UpperLetters[k], "0", "1">> : k \in 1..26}
    \cup {<<"K", "0", "2", ".", "9">>, <<"k", "0", "2", ".", "9">>,
          <<"j", "4", "5">>, <<"9", "9">>, <<>>}
HierarchyCodes == {<<"K", "0", "2", ".", "9">>, <<"J", "4", "5", ".", "0">>}

HierarchyInit ==
  /\ icd10am_codes = IcdCatalogue
  /\ achi_codes = AchiCatalogue
  /\ valid_relationships = <<InitialRow>>
  /\ cache = EmptyDict
  /\ oracleCalls = 0
  /\ seen = EmptyDict
  /\ ret = NoCall
  /\ requests = [i \in 1..MaxRequests |-> NoRequest]
  /\ validation_test_log = EmptyDict
  /\ icd_achi_category_mapping \in MappingTables
  /\ achi_codes_v2 \in V2Tables
  /\ ai_validator \in BOOLEAN
  /\ answers = EmptyDict

GetIcdChapter(icd_code) ==
  /\ ret' = [NoCall EXCEPT !.op = "get_icd_chapter",
                           !.args = [icd_code |-> icd_code],
                           !.result = get_icd_chapter(icd_code)]
  /\ UNCHANGED <<icd10am_codes, achi_codes, valid_relationships, cache,
                 oracleCalls, seen, server, hierarchy, answers>>

GetAchiHierarchy(achi_code) ==
  /\ ret' = [NoCall EXCEPT !.op = "get_achi_hierarchy",
                           !.args = [achi_code |-> achi_code],
                           !.result = get_achi_hierarchy(achi_code)]
  /\ UNCHANGED <<icd10am_codes, achi_codes, valid_relationships, cache,
                 oracleCalls, seen, server, hierarchy, answers>>

ValidateWithHierarchy(icd_code, icd_desc, achi_code, achi_desc) ==
  \E reply \in RepliesFor(ai_validator) :
    LET out == validate_with_hierarchy(icd_code, icd_desc, achi_code, achi_desc, reply)
    IN /\ out.oracle => oracleCalls < MaxOracleCalls
       /\ oracleCalls' = oracleCalls + (IF out.oracle THEN 1 ELSE 0)
       /\ ret' = [NoCall EXCEPT !.op = "validate_with_hierarchy",
                                !.args = [icd_code |-> icd_code, achi_code |-> achi_code],
                                !.oracle = out.oracle,
                                !.tier = out.tier,
                                !.calls_before = oracleCalls,
                                !.reply = IF out.oracle THEN reply ELSE None,
                                !.result = out.result,
                                !.context = out.context,
                                !.request = out.request]
       /\ UNCHANGED <<icd10am_codes, achi_codes, valid_relationships, cache,
                      seen, server, hierarchy, answers>>

HierarchyNext ==
  \/ \E c \in ChapterCodes : GetIcdChapter(c)
  \/ \E p \in AchiInputs : GetAchiHierarchy(p)
  \/ \E c \in HierarchyCodes, p \in AchiInputs :
       ValidateWithHierarchy(c, "Dental caries", p, "Tooth extraction")

HierarchySpec == HierarchyInit /\ [][HierarchyNext]_vars

\* ------------------------------------------------------- results as objects
\* validate returns the dict object it keeps in the cache (`self.cache[
\* cache_key] = result; return result`, `return self.cache[cache_key]`), so
\* the caller and the cache hold the same object.
\* Assignments a caller makes to a result dict it received.
CallerAssignments ==
  { [key |-> "source", value |-> "reviewed"],
    [key |-> "note", value |-> "checked by coder"] }

\* The caller of an earlier validate(icd_code, achi_code) that was answered
\* with the cached object assigns result[key] = value.
CallerAssigns(icd_code, achi_code, a) ==
  LET cache_key == get_cache_key(icd_code, achi_code)
  IN /\ cache_key \in DOMAIN cache
     /\ <<icd_code, achi_code>> \in DOMAIN seen
     /\ cache' = DictSet(cache, cache_key, DictSet(cache[cache_key], a.key, a.value))
     /\ ret' = [NoCall EXCEPT !.op = "caller_assigns", !.icd_code = icd_code,
                              !.achi_code = achi_code]
     /\ UNCHANGED <<icd10am_codes, achi_codes, valid_relationships, oracleCalls,
                    seen, server, hierarchy, answers>>

AliasNext ==
  \/ \E d \in IcdInputs, p \in AchiInputs : Validate(d, p)
  \/ \E d \in IcdInputs, p \in AchiInputs, a \in CallerAssignments :
       CallerAssigns(d, p, a)

AliasSpec == ServerInit /\ [][AliasNext]_vars


\* ------------------------------------------------------------ repeated runs
\* A chat model that honours temperature 0 and the seed: it answers equal
\* requests equally. answers[request] is what it answered to the request.
AnswersTo(request) ==
  IF request \in DOMAIN answers THEN {answers[request]} ELSE OracleReplies

\* seen also keeps, under <<icd_code, achi_code, context>>, what the last
\* validate_code_pair call with that context returned.
PriorOf(call) ==
  IF call \in DOMAIN seen THEN seen[call] ELSE [result |-> None, fresh |-> FALSE]

\* rag_validator.validate(icd_code, achi_code) with that chat model
ValidateRepeatable(icd_code, achi_code) ==
  LET sends == validate(icd_code, achi_code, AnyReply)
  IN \E reply \in (IF sends.oracle THEN AnswersTo(sends.request) ELSE {AnyReply}) :
       LET out == validate(icd_code, achi_code, reply)
       IN /\ out.oracle => oracleCalls < MaxRepeatCalls
          /\ cache' = out.cache
          /\ oracleCalls' = oracleCalls + (IF out.oracle THEN 1 ELSE 0)
          /\ seen' = DictSet(seen, <<icd_code, achi_code>>,
                             [result |-> out.result, fresh |-> TRUE])
          /\ ret' = Called("validate", icd_code, achi_code, None, reply, out)
          /\ answers' = IF out.oracle THEN DictSet(answers, out.request, reply)
                        ELSE answers
          /\ UNCHANGED <<icd10am_codes, achi_codes, valid_relationships, server,
                         hierarchy>>

\* rag_validator.validate_code_pair(..., context) with the flag set, with
\* that chat model
ValidateCodePairRepeatable(icd_code, icd_desc, achi_code, achi_desc, context) ==
  LET sends == validate_code_pair(icd_code, icd_desc, achi_code, achi_desc,
                                  context, AnyReply)
      call == <<icd_code, achi_code, context>>
  IN /\ ContextFlagged(context)
     /\ \E reply \in AnswersTo(sends.request) :
          LET out == validate_code_pair(icd_code, icd_desc, achi_code, achi_desc,
                                        context, reply)
          IN /\ oracleCalls < MaxRepeatCalls
             /\ cache' = out.cache
             /\ oracleCalls' = oracleCalls + 1
             /\ seen' = DictSet(seen, call, [result |-> out.result, fresh |-> TRUE])
             /\ ret' = [Called("validate_code_pair", icd_code, achi_code, context,
                               reply, out)
                          EXCEPT !.prior = PriorOf(call).result,
                                 !.fresh = PriorOf(call).fresh]
             /\ answers' = DictSet(answers, out.request, reply)
             /\ UNCHANGED <<icd10am_codes, achi_codes, valid_relationships, server,
                            hierarchy>>

\* The service is started again: `rag_validator = RAGValidator()` runs with
\* `self.cache = {}`; the database file is the one left by the last run.
Restart ==
  /\ cache' = EmptyDict
  /\ ret' = [NoCall EXCEPT !.op = "restart"]
  /\ UNCHANGED <<icd10am_codes, achi_codes, valid_relationships, oracleCalls,
                 seen, server, hierarchy, answers>>

\* The procedure code of the confirmations made between the runs.
RepeatSaveInputs == {"52318-00"}

RepeatNext ==
  \/ \E d \in HierarchyIcdInputs, p \in AchiInputs : ValidateRepeatable(d, p)
  \/ \E d \in HierarchyIcdInputs, p \in AchiInputs :
       ValidateCodePairRepeatable(d, "Dental caries", p, "Tooth extraction",
                                  HierarchyContext)
  \/ \E d \in SaveIcdInputs, p \in RepeatSaveInputs : SaveUserConfirmed(d, p)
  \/ Restart

RepeatSpec == ServerInit /\ [][RepeatNext]_vars


\* --------------------------------------------------------------- cache keys
\* Workbooks whose code cells contain the character ':' (the import stores
\* str(cell) as it is), and the codes clients send.
KeyIcdCatalogue ==
  { [code |-> "K02.9", description |-> "Dental caries", category |-> "Dental"],
    [code |-> "K02.9:A", description |-> "Dental caries, arrested",
     category |-> "Dental"] }
KeyAchiCatalogue ==
  { [code |-> "52318-00", description |-> "Extraction of tooth",
     short_description |-> "Tooth extraction", category |-> "Dental"],
    [code |-> "A:52318-00", description |-> "Extraction of tooth, anaesthetised",
     short_description |-> "Tooth extraction under anaesthesia",
     category |-> "Dental"] }
KeyIcdInputs == {r.code : r \in KeyIcdCatalogue}
KeyAchiInputs == {r.code : r \in KeyAchiCatalogue}

KeyInit ==
  /\ icd10am_codes \in {{r \in KeyIcdCatalogue : r.code = "K02.9"}, KeyIcdCatalogue}
  /\ achi_codes = KeyAchiCatalogue
  /\ valid_relationships = <<InitialRow>>
  /\ cache = EmptyDict
  /\ oracleCalls = 0
  /\ seen = EmptyDict
  /\ ret = NoCall
  /\ requests = [i \in 1..MaxRequests |-> NoRequest]
  /\ validation_test_log = EmptyDict
  /\ HierarchyLoaded
  /\ answers = EmptyDict

KeyNext == \E d \in KeyIcdInputs, p \in KeyAchiInputs : Validate(d, p)

KeySpec == KeyInit /\ [][KeyNext]_vars


\* -------------------------------------------------------------------- tiers
\* Stores of 0 to MaxStoreRows generated rows, the two Dental/Dental sample
\* rows in turn: from no example to more examples than the query returns.
SampleRowAt(i) ==
  CHOOSE r \in SampleRows : r.confidence = (IF i % 2 = 1 THEN 95 ELSE 90)
TierStores ==
  { [i \in 1..n |-> [SampleRowAt(i) EXCEPT !.id = i]] : n \in 0..MaxStoreRows }

TierInit ==
  /\ icd10am_codes = IcdCatalogue
  /\ achi_codes = AchiCatalogue
  /\ valid_relationships \in TierStores
  /\ cache = EmptyDict
  /\ oracleCalls = 0
  /\ seen = EmptyDict
  /\ ret = NoCall
  /\ requests = [i \in 1..MaxRequests |-> NoRequest]
  /\ validation_test_log = EmptyDict
  /\ HierarchyLoaded
  /\ answers = EmptyDict

TierNext == \E d \in IcdInputs, p \in AchiInputs : Validate(d, p)

TierSpec == TierInit /\ [][TierNext]_vars


\* ================================================================= claims

IcdInRegistry(icd_code) == get_icd_with_category(icd_code) # None
AchiInRegistry(achi_code) == get_achi_with_category(achi_code) # None
InRegistry(icd_code, achi_code) == IcdInRegistry(icd_code) /\ AchiInRegistry(achi_code)
HasExact(icd_code, achi_code) == get_exact_match(icd_code, achi_code) # None
SimilarFor(icd_code, achi_code) ==
  get_similar_examples(get_icd_with_category(icd_code).category,
                       get_achi_with_category(achi_code).category, SimilarLimit)
RetKey == get_cache_key(ret.icd_code, ret.achi_code)
ConfidenceInRange(r) ==
  "confidence" \in DOMAIN r /\ ZeroConfidence <= r.confidence /\ r.confidence <= FullConfidence

\* C1: whenever both codes of a pair are in the registry and the store holds
\* an exact relationship for the pair, validate returns is_valid = true,
\* confidence 1.0 and the exact-match source, whatever the cache holds.
C1_ExactMatchAlwaysWins ==
  (ret.op = "validate" /\ InRegistry(ret.icd_code, ret.achi_code)
                       /\ HasExact(ret.icd_code, ret.achi_code))
    => /\ ret.result.is_valid = TRUE
       /\ ConfidenceInRange(ret.result) /\ ret.result.confidence = FullConfidence
       /\ ret.result.source = "database_exact"

\* C2: a validate call for a pair already validated, with no change of the
\* database since, returns a result equal to the earlier one in every field
\* and sends no request to the chat model.
C2_RepeatedCallIsIdentical ==
  (ret.op = "validate" /\ ret.prior # None /\ ret.fresh)
    => /\ ret.result = ret.prior
       /\ ~ret.oracle
       /\ oracleCalls = ret.calls_before

C2_Witness ==
  /\ ret.op = "validate" /\ ret.prior # None /\ ret.fresh /\ ret.hit
  /\ ret.result = ret.prior
  /\ ret.result.source \in {"ai_with_examples", "ai_inference"}
  /\ oracleCalls = ret.calls_before

\* C3: for an uncached pair with a code absent from the registry, validate
\* returns source = not_found, is_valid = false, confidence 0.0 without a
\* request to the chat model, and that source differs from the source of an
\* oracle failure.
C3_NotFoundHasOwnSource ==
  (ret.op = "validate" /\ ~ret.hit /\ ~InRegistry(ret.icd_code, ret.achi_code))
    => /\ ret.result.source = "not_found"
       /\ ret.result.source # api_error("Request timed out.").source
       /\ ret.result.is_valid = FALSE
       /\ ret.result.confidence = ZeroConfidence
       /\ ~ret.oracle

\* C4: a not-found result is never stored in the cache, a not-found result
\* returned by validate names a code that is absent from the registry at that
\* moment, and a call made after the missing code was added does not return
\* the earlier not-found result.
C4_NotFoundIsNeverCached ==
  /\ \A k \in DOMAIN cache : ~IsNotFound(cache[k])
  /\ ret.op = "validate" =>
       /\ IsNotFound(ret.result) => RetKey \notin DOMAIN cache
       /\ ret.result = icd_not_found(RetKey, ret.icd_code).result
            => ~IcdInRegistry(ret.icd_code)
       /\ ret.result = achi_not_found(RetKey, ret.achi_code).result
            => ~AchiInRegistry(ret.achi_code)
       /\ (/\ ret.prior = icd_not_found(RetKey, ret.icd_code).result
           /\ IcdInRegistry(ret.icd_code)) => ret.result # ret.prior
       /\ (/\ ret.prior = achi_not_found(RetKey, ret.achi_code).result
           /\ AchiInRegistry(ret.achi_code)) => ret.result # ret.prior

C4_Witness ==
  /\ ret.op = "validate" /\ ret.prior # None /\ IsNotFound(ret.prior) /\ ~ret.fresh
  /\ InRegistry(ret.icd_code, ret.achi_code)
  /\ ~IsNotFound(ret.result)
  /\ ~ret.hit

\* C5: an error result of a failed oracle call is never stored in the cache,
\* and the next validate call with the same arguments misses the cache and
\* sends a request again.
C5_ErrorIsNeverCached ==
  /\ \A k \in DOMAIN cache : ~IsOracleError(cache[k])
  /\ (ret.op = "validate" /\ ret.prior # None /\ ret.fresh /\ IsOracleError(ret.prior))
       => (~ret.hit /\ ret.oracle)

\* C6: when the chat model replies with a JSON object that lacks a required
\* field, validate returns source = error with confidence 0.0 and stores
\* nothing in the cache for the pair.
C6_MissingFieldIsRejected ==
  (/\ ret.op = "validate" /\ ret.oracle /\ ret.reply.ok
   /\ ~(RequiredFields \subseteq DOMAIN ret.reply.content))
    => /\ ret.result.source = "error"
       /\ ConfidenceInRange(ret.result) /\ ret.result.confidence = ZeroConfidence
       /\ RetKey \notin DOMAIN cache

\* C7: the confidence of every result returned by validate and of every
\* cache entry lies between 0.0 and 1.0, whatever the chat model replied.
C7_ConfidenceInUnitInterval ==
  /\ (ret.op = "validate" /\ "confidence" \in DOMAIN ret.result)
       => ConfidenceInRange(ret.result)
  /\ \A k \in DOMAIN cache :
       "confidence" \in DOMAIN cache[k] => ConfidenceInRange(cache[k])

\* C8: validate takes the first applicable tier in the order cache, diagnosis
\* code missing, procedure code missing, exact relationship, similar
\* examples, pure inference; it has no hierarchy argument, so it never takes
\* the hierarchical tier.
C8_FirstApplicableTierWins ==
  ret.op = "validate" =>
    LET d == ret.icd_code
        p == ret.achi_code
    IN /\ ret.hit => ret.tier = "cache"
       /\ (~ret.hit /\ ~IcdInRegistry(d)) => ret.tier = "icd_not_found"
       /\ (~ret.hit /\ IcdInRegistry(d) /\ ~AchiInRegistry(p))
            => ret.tier = "achi_not_found"
       /\ (~ret.hit /\ InRegistry(d, p) /\ HasExact(d, p))
            => (ret.tier = "database_exact" /\ ret.result.source = "database_exact")
       /\ (~ret.hit /\ InRegistry(d, p) /\ ~HasExact(d, p) /\ SimilarFor(d, p) # <<>>)
            => (ret.tier = "ai_with_examples"
                /\ ret.result.source \in {"ai_with_examples", "error"})
       /\ (~ret.hit /\ InRegistry(d, p) /\ ~HasExact(d, p) /\ SimilarFor(d, p) = <<>>)
            => (ret.tier = "ai_inference"
                /\ ret.result.source \in {"ai_inference", "error"})
       /\ ret.tier # "ai_hierarchical"

\* A relationship row is stored for the pair but the diagnosis code is not
\* in the registry: the not-found answer is the one returned.
C8_Witness ==
  /\ ret.op = "validate" /\ ~ret.hit
  /\ ~IcdInRegistry(ret.icd_code) /\ AchiInRegistry(ret.achi_code)
  /\ HasExact(ret.icd_code, ret.achi_code)
  /\ ret.tier = "icd_not_found"
  /\ IsNotFound(ret.result)

C10_NoOracleOnEarlyTiers ==
  (/\ ret.op = "validate"
   /\ \/ ret.hit
      \/ ~InRegistry(ret.icd_code, ret.achi_code)
      \/ HasExact(ret.icd_code, ret.achi_code))
    => /\ ~ret.oracle
       /\ ret.reply = None
       /\ oracleCalls = ret.calls_before

C10_Witness ==
  /\ ret.op = "validate" /\ ~ret.hit
  /\ InRegistry(ret.icd_code, ret.achi_code)
  /\ HasExact(ret.icd_code, ret.achi_code)
  /\ ret.result.source = "database_exact"
  /\ oracleCalls = ret.calls_before
  /\ oracleCalls < MaxOracleCalls

\* C11: when the request to the chat model fails, each of the three oracle
\* paths (pure inference, similar examples, hierarchical context) returns a
\* dict with source = error, is_valid = false, confidence 0.0 and a reasoning
\* text that contains the failure cause; the caller gets a result, not an
\* exception.
C11_OracleFailureIsStructuredError ==
  (ret.op \in {"validate", "validate_code_pair"} /\ ret.oracle /\ ~ret.reply.ok)
    => /\ ret.tier \in {"ai_inference", "ai_with_examples", "ai_hierarchical"}
       /\ {"source", "is_valid", "confidence", "reasoning"} \subseteq DOMAIN ret.result
       /\ ret.result.source = "error"
       /\ ret.result.is_valid = FALSE
       /\ ret.result.confidence = ZeroConfidence
       /\ ret.result.reasoning = "API Error: " \o ret.reply.cause

\* The request of the similar-examples path failed.
C11_Witness ==
  /\ ret.op = "validate" /\ ret.oracle /\ ~ret.reply.ok
  /\ ret.tier = "ai_with_examples"
  /\ ret.result.source = "error"
  /\ ret.result.reasoning = "API Error: Request timed out."

\* C12: the source field alone tells an undetermined result from a verdict:
\* a validate result whose source is neither not_found nor error carries a
\* complete verdict (is_valid, reasoning, confidence, certainty_explanation),
\* and a result that follows a missing code, a failed request or a reply that
\* breaks the reply contract has a source in {not_found, error}.
C12_SourceSeparatesUndetermined ==
  ret.op = "validate" =>
    /\ ret.result.source \notin {"not_found", "error"}
         => RequiredFields \subseteq DOMAIN ret.result
    /\ (\/ IsNotFound(ret.result)
        \/ (ret.oracle /\ ~ret.reply.ok)
        \/ (ret.oracle /\ ret.reply.ok
              /\ ~(/\ RequiredFields \subseteq DOMAIN ret.reply.content
                   /\ ConfidenceInRange(ret.reply.content))))
         => ret.result.source \in {"not_found", "error"}

SamePair(i, j) ==
  /\ requests[i].icd_code = requests[j].icd_code
  /\ requests[i].achi_code = requests[j].achi_code

\* C13: of two requests for the same pair that are in progress at the same
\* time, at most one sends a request to the chat model and at most one
\* writes the cache entry of the pair.
C13_OneWriterPerPair ==
  \A i, j \in DOMAIN requests :
    (i # j /\ i \in requests[j].during /\ SamePair(i, j))
      => /\ ~(requests[i].asked /\ requests[j].asked)
         /\ ~(requests[i].wrote /\ requests[j].wrote)

\* Two requests for one uncached pair were in progress together: one asked
\* the chat model and wrote the entry, the other was answered from it.
C13_Witness ==
  \E i, j \in DOMAIN requests :
    /\ i # j /\ i \in requests[j].during /\ SamePair(i, j)
    /\ requests[i].at = "done" /\ requests[j].at = "done"
    /\ requests[i].asked /\ requests[i].wrote
    /\ requests[j].tier = "cache" /\ ~requests[j].asked /\ ~requests[j].wrote
    /\ oracleCalls = 1

\* C14: while the handler of one request waits for the chat model, a
\* received request for a different pair can be started.
C14_DistinctPairsIndependent ==
  \A i, j \in DOMAIN requests :
    (/\ requests[i].at = "received" /\ requests[j].at = "oracle"
     /\ ~SamePair(i, j)) => ENABLED HandleValidate(i)

\* C15: the store never holds two rows with the same diagnosis code and
\* procedure code, whatever calls of save_user_confirmed_relationship were
\* made.
C15_StoredPairsAreUnique ==
  \A i, j \in 1..Len(valid_relationships) :
    (/\ valid_relationships[i].icd_code = valid_relationships[j].icd_code
     /\ valid_relationships[i].achi_code = valid_relationships[j].achi_code)
      => i = j

Matching(icd_category, achi_category) ==
  {i \in 1..Len(valid_relationships) :
     /\ valid_relationships[i].icd_category = icd_category
     /\ valid_relationships[i].achi_category = achi_category}

StoredIcdCodes == {r.code : r \in icd10am_codes}

\* C19: codes are resolved and cache keys are built exactly: a diagnosis
\* code that is stored only in another letter case is not found, the keys of
\* two pairs that differ only in letter case differ, so an entry stored for
\* one is never returned for the other, and a pair validated before finds
\* the entry stored under its own key.
C19_CodesAreCaseSensitive ==
  /\ \A d1, d2 \in CaseIcdInputs : \A p \in AchiInputs :
       d1 # d2 => get_cache_key(d1, p) # get_cache_key(d2, p)
  /\ ret.op = "validate" =>
       /\ (~ret.hit /\ ret.icd_code \notin StoredIcdCodes)
            => ret.result = icd_not_found(RetKey, ret.icd_code).result
       /\ ret.hit => /\ ret.result = cache[RetKey]
                      /\ \E r \in icd10am_codes :
                           /\ r.code = ret.icd_code
                           /\ r.description = ret.result.icd_description
       /\ (ret.prior # None /\ ret.fresh /\ ~IsNotFound(ret.prior)) => ret.hit

\* The pair is cached under the upper-case code; the call with the
\* lower-case code misses the cache and the registry.
C19_Witness ==
  /\ ret.op = "validate" /\ ret.icd_code = "k02.9"
  /\ "K02.9" \in StoredIcdCodes /\ SameIgnoringCase("K02.9", ret.icd_code)
  /\ get_cache_key("K02.9", ret.achi_code) \in DOMAIN cache
  /\ ~ret.hit
  /\ IsNotFound(ret.result)

\* The table of chapters as the claim lists it.
ChapterTable(L) ==
  CASE L \in {"A", "B"} -> "A00-B99"
    [] L \in {"C", "D"} -> "C00-D48"
    [] L = "E" -> "E00-E89"
    [] L = "F" -> "F01-F99"
    [] L = "G" -> "G00-G99"
    [] L = "H" -> "H00-H95"
    [] L = "I" -> "I00-I99"
    [] L = "J" -> "J00-J99"
    [] L = "K" -> "K00-K93"
    [] L = "L" -> "L00-L99"
    [] L = "M" -> "M00-M99"
    [] L = "N" -> "N00-N99"
    [] L = "O" -> "O00-O9A"
    [] L = "P" -> "P00-P96"
    [] L = "Q" -> "Q00-Q99"
    [] L = "R" -> "R00-R94"
    [] L \in {"S", "T"} -> "S00-T98"
    [] L = "U" -> "U00-U99"
    [] L \in {"V", "W", "X", "Y"} -> "V01-Y98"
    [] L = "Z" -> "Z00-Z99"
    [] OTHER -> L \o "00-" \o L \o "99"

StoredChapterNames(key) ==
  {icd_achi_category_mapping[i].icd_chapter_name :
     i \in {j \in 1..Len(icd_achi_category_mapping) :
              icd_achi_category_mapping[j].icd_chapter = key}}

\* The chapter get_icd_chapter returned is the one of the character L.
ChapterIsOf(chapter, L) ==
  /\ chapter[1] # None
  /\ chapter[1] = Val(ChapterTable(L))
  /\ IF StoredChapterNames(ChapterTable(L)) = {}
     THEN chapter[2] = Val("Diseases starting with " \o L)
     ELSE chapter[2] \in {Val(n) : n \in StoredChapterNames(ChapterTable(L))}

\* C17 as stated: the chapter key is the table entry of the first character
\* when that is an upper-case letter A to Z and L00-L99 for any other first
\* character L; the name is the stored one for the key or 'Diseases starting
\* with L'.
C17_ChapterOfFirstCharacter ==
  (ret.op = "get_icd_chapter" /\ ret.args.icd_code # <<>>)
    => ChapterIsOf(ret.result, ret.args.icd_code[1])

\* C17 amended: the first character is upper-cased before the lookup. With
\* L the upper-case form of the first character, the chapter key is the
\* table entry of L when L is a letter A to Z and L00-L99 otherwise, never
\* null, and the name is the stored mapping name for that key when one
\* exists and 'Diseases starting with L' otherwise; so a code that starts
\* with a lower-case letter gets the chapter of the upper-case letter.
C17_ChapterOfUpperCasedFirstCharacter ==
  (ret.op = "get_icd_chapter" /\ ret.args.icd_code # <<>>)
    => ChapterIsOf(ret.result, upper(ret.args.icd_code[1]))

\* A code written in lower case gets the stored chapter of the letter K.
C17_Witness ==
  /\ ret.op = "get_icd_chapter"
  /\ ret.args.icd_code = <<"k", "0", "2", ".", "9">>
  /\ ret.result = <<Val("K00-K93"), Val("Diseases of the digestive system")>>

\* C18: on every path of validate_with_hierarchy the confidence returned is
\* the one the chat model replied (0.0 when the request failed) or, without
\* the chat client, the constant of the fallback chosen by the match flag;
\* the mapping row found for the pair gives the context its match flag and
\* its notes only (the names in the context are those of get_icd_chapter
\* and get_achi_hierarchy), and its mapping_confidence appears nowhere.
C18_MappingConfidenceIsNotUsed ==
  ret.op = "validate_with_hierarchy" =>
    LET hits == MappingHits(ret.context.icd_chapter, ret.context.achi_main_category)
    IN /\ ret.context.category_match = (hits # {})
       /\ ret.context.mapping_notes \in
            (IF hits = {} THEN {None}
             ELSE {icd_achi_category_mapping[i].notes : i \in hits})
       /\ ret.context.icd_chapter_name = get_icd_chapter(ret.args.icd_code)[2]
       /\ ret.context.achi_main_name = get_achi_hierarchy(ret.args.achi_code)[2]
       /\ DOMAIN ret.context \subseteq
            {"icd_chapter", "icd_chapter_name", "achi_main_category",
             "achi_main_name", "achi_sub_category", "category_match",
             "mapping_notes", "hierarchical_context"}
       /\ IF ai_validator
          THEN /\ ret.oracle
               /\ (ret.reply.ok /\ "confidence" \in DOMAIN ret.reply.content)
                    => ret.result.confidence = ret.reply.content.confidence
               /\ (ret.reply.ok /\ "confidence" \notin DOMAIN ret.reply.content)
                    => "confidence" \notin DOMAIN ret.result
               /\ ~ret.reply.ok => ret.result.confidence = ZeroConfidence
          ELSE /\ ~ret.oracle
               /\ ret.result[2] = (IF hits # {} THEN 85 ELSE 95)

\* Without the chat client, a pair whose mapping row stores 0.60 is answered
\* with the fallback's 0.85.
C18_Witness ==
  /\ ret.op = "validate_with_hierarchy" /\ ~ai_validator
  /\ ret.context.category_match
  /\ \E i \in MappingHits(ret.context.icd_chapter, ret.context.achi_main_category) :
       icd_achi_category_mapping[i].mapping_confidence = 60
  /\ ret.result[1] = TRUE /\ ret.result[2] = 85

\* C20: get_achi_hierarchy returns a null for each field whose link is
\* missing (no main category, no sub-category, a link to no row, no row for
\* the code) and the value for each link that resolves, and
\* validate_with_hierarchy then builds its context from these values,
\* without a category match when the main category is null, and returns a
\* result.
C20_MissingLinkGivesNull ==
  /\ ret.op = "get_achi_hierarchy" =>
       LET h == ret.result
           rows == {r \in achi_codes_v2 : r.code = ret.args.achi_code}
       IN /\ Len(h) = 4
          /\ rows = {} => h = <<None, None, None, None>>
          /\ \A r \in rows :
               LET mains == IF r.main_category_code = None THEN {}
                            ELSE {am \in achi_main_categories :
                                    am.code = r.main_category_code.value}
                   subs == IF r.sub_category_id = None THEN {}
                           ELSE {sc \in achi_sub_categories :
                                   sc.id = r.sub_category_id.value}
               IN /\ mains = {} => (h[1] = None /\ h[2] = None)
                  /\ \A am \in mains : h[1] = Val(am.code) /\ h[2] = Val(am.name)
                  /\ subs = {} => h[3] = None
                  /\ \A sc \in subs : h[3] = Val(sc.name)
                  /\ h[4] = Val(r.description)
  /\ ret.op = "validate_with_hierarchy" =>
       LET h == get_achi_hierarchy(ret.args.achi_code)
       IN /\ ret.context.achi_main_category = h[1]
          /\ ret.context.achi_main_name = h[2]
          /\ ret.context.achi_sub_category = h[3]
          /\ h[1] = None => (~ret.context.category_match
                             /\ ret.context.mapping_notes = None)
          /\ IF ai_validator THEN "source" \in DOMAIN ret.result
             ELSE Len(ret.result) = 3

\* The code has a sub-category and no main category.
C20_Witness ==
  /\ ret.op = "validate_with_hierarchy"
  /\ \E r \in achi_codes_v2 :
       /\ r.code = ret.args.achi_code
       /\ r.main_category_code = None /\ r.sub_category_id # None
  /\ ret.context.achi_main_category = None
  /\ ret.context.achi_main_name = None
  /\ ret.context.achi_sub_category = Val("Extraction")
  /\ ~ret.context.category_match
  /\ ai_validator /\ ret.result.source = "ai_hierarchical"


\* C21: a cache entry is never changed after it is stored: every cache hit
\* for a pair returns a result equal in every field to the one the previous
\* validate call for the pair returned (so, call after call, to the one
\* returned by the call that stored the entry), and the entry in the cache
\* stays equal to it, whatever validate calls and whatever assignments of a
\* caller to a result it received happen in between.
C21_CacheEntryIsNeverMutated ==
  /\ (ret.op = "validate" /\ ret.hit /\ ret.prior # None)
       => (ret.result = ret.prior /\ ret.result.source = ret.prior.source)
  /\ \A d \in IcdInputs, p \in AchiInputs :
       (<<d, p>> \in DOMAIN seen /\ get_cache_key(d, p) \in DOMAIN cache)
         => cache[get_cache_key(d, p)] = seen[<<d, p>>].result


\* C22: for a pair with both codes in the registry, no stored exact
\* relationship and no similar examples, validate sends exactly one request
\* to the chat model, the request carries the category label of the
\* diagnosis and the category label of the procedure, and when the chat
\* model answers the source of the result is the inference tier (validate
\* has no hierarchical tier).
C22_NoEvidencePairAsksOracleWithCategories ==
  (/\ ret.op = "validate" /\ ~ret.hit
   /\ InRegistry(ret.icd_code, ret.achi_code)
   /\ ~HasExact(ret.icd_code, ret.achi_code)
   /\ SimilarFor(ret.icd_code, ret.achi_code) = <<>>)
    => /\ ret.oracle
       /\ oracleCalls = ret.calls_before + 1
       /\ ret.request # None
       /\ {"icd_category", "achi_category"} \subseteq DOMAIN ret.request.prompt
       /\ ret.request.prompt.icd_category
            = get_icd_with_category(ret.icd_code).category
       /\ ret.request.prompt.achi_category
            = get_achi_with_category(ret.achi_code).category
       /\ ret.reply.ok => ret.result.source \in {"ai_hierarchical", "ai_inference"}

\* Dental caries paired with non-invasive ventilation: the request names
\* Dental and Respiratory and the answer comes from the inference tier.
C22_Witness ==
  /\ ret.op = "validate" /\ ~ret.hit
  /\ ret.icd_code = "K02.9" /\ ret.achi_code = "92209-00"
  /\ InRegistry(ret.icd_code, ret.achi_code) /\ ret.oracle
  /\ ~HasExact(ret.icd_code, ret.achi_code)
  /\ SimilarFor(ret.icd_code, ret.achi_code) = <<>>
  /\ ret.request.prompt.icd_category = "Dental"
  /\ ret.request.prompt.achi_category = "Respiratory"
  /\ ret.reply.ok /\ ret.result.source = "ai_inference"
  /\ oracleCalls = ret.calls_before + 1


\* C23: validate_with_hierarchy always returns a triple (is_valid,
\* confidence, reasoning) that a caller can unpack into exactly three
\* values, with the AI validator and with the basic-validation fallback.
C23_HierarchyReturnsTriple ==
  ret.op = "validate_with_hierarchy" =>
    LET u == unpack3(ret.tier, ret.result)
    IN /\ u # None
       /\ u.value[1] \in BOOLEAN
       /\ u.value[2] \in ZeroConfidence..FullConfidence


\* The evidence of the call described by ret, read from the stores, and the
\* prompt the template of its tier builds from it.
EvidencePrompt ==
  IF ret.tier = "ai_hierarchical"
  THEN hierarchical_prompt(ret.icd_code, "Dental caries", ret.achi_code,
                           "Tooth extraction", ret.context)
  ELSE IF ret.tier = "ai_with_examples"
  THEN similar_examples_prompt(get_icd_with_category(ret.icd_code),
                               get_achi_with_category(ret.achi_code),
                               SimilarFor(ret.icd_code, ret.achi_code))
  ELSE pure_ai_prompt(get_icd_with_category(ret.icd_code),
                      get_achi_with_category(ret.achi_code))

\* C24: the request sent to the chat model is a function of the evidence
\* alone: on each of the three templates it carries temperature 0, the seed
\* 42 and the prompt built from the code records and the ordered examples,
\* or from the hierarchy context; so with a chat model that answers equal
\* requests equally, a call that asks the chat model again with the same
\* arguments and an unchanged database returns the result of the earlier
\* call.
C24_RequestIsFunctionOfEvidence ==
  (ret.op \in {"validate", "validate_code_pair"} /\ ret.oracle) =>
    /\ ret.tier \in {"ai_inference", "ai_with_examples", "ai_hierarchical"}
    /\ ret.request.temperature = 0
    /\ ret.request.seed = 42
    /\ ret.request.model = "gpt-4.1-mini"
    /\ ret.request.prompt = EvidencePrompt
    /\ ret.request \in DOMAIN answers /\ answers[ret.request] = ret.reply
    /\ (ret.prior # None /\ ret.fresh) => ret.result = ret.prior

\* After a restart the pair is sent to the chat model a second time, with
\* the same examples, and the result is the one of the first run.
C24_Witness ==
  /\ ret.op = "validate" /\ ret.oracle /\ ret.tier = "ai_with_examples"
  /\ ret.calls_before = 1 /\ oracleCalls = 2
  /\ ret.prior # None /\ ret.fresh
  /\ ret.result = ret.prior
  /\ ret.result.source = "ai_with_examples"
  /\ Cardinality(DOMAIN answers) = 1


\* The row the log holds for a result that has the three fields logged.
IsVerdictRow(row, result) ==
  /\ row.ai_decision = (IF result.is_valid THEN "Valid" ELSE "Invalid")
  /\ row.ai_confidence_percent = result.confidence
  /\ row.ai_reasoning = result.reasoning

Loggable(result) == {"is_valid", "confidence", "reasoning"} \subseteq DOMAIN result

\* C25: the test log holds at most one row per pair; the row of a pair is
\* the verdict of the first request answered for the pair, written by the
\* first request whose logging step succeeds; requests that find the row
\* leave it as it is, and the row never changes afterwards; a logging step
\* that fails writes nothing and the response is the one built from the
\* result of validate all the same.
C25_TestLogKeepsFirstVerdict ==
  /\ \A k, l \in 1..Len(validation_test_log) :
       (/\ validation_test_log[k].icd_code = validation_test_log[l].icd_code
        /\ validation_test_log[k].achi_code = validation_test_log[l].achi_code)
         => k = l
  /\ \A i \in DOMAIN requests : requests[i].at = "done" =>
       LET r == requests[i]
           rows == LogRows(r.icd_code, r.achi_code)
           ok == r.connected /\ Loggable(r.result)
           firsts == {j \in DOMAIN requests :
                        /\ requests[j].at = "done" /\ SamePair(i, j)
                        /\ \A m \in DOMAIN requests :
                             (requests[m].at = "done" /\ SamePair(i, m))
                               => requests[j].order <= requests[m].order}
       IN /\ r.rows_before # {} => r.rows_after = r.rows_before
          /\ r.rows_after # {} => rows = r.rows_after
          /\ (ok /\ r.rows_before = {}) =>
               (Cardinality(rows) = 1 /\ \A row \in rows : IsVerdictRow(row, r.result))
          /\ ~ok => r.rows_after = r.rows_before
          /\ \A row \in rows : \A j \in firsts :
               Loggable(requests[j].result) /\ IsVerdictRow(row, requests[j].result)
          /\ r.response = validation_response(r.icd_code, r.achi_code, r.result)
          /\ (RequiredFields \cup {"source", "similar_examples_count"})
                \subseteq DOMAIN r.result => r.response.status = 200

\* The logging step of the first request for a pair failed and the request
\* was answered with its verdict; a later request for the pair wrote the
\* row, and the row is the verdict of the first.
C25_Witness ==
  \E i, j \in DOMAIN requests :
    /\ i # j /\ SamePair(i, j)
    /\ requests[i].at = "done" /\ requests[j].at = "done"
    /\ requests[i].order < requests[j].order
    /\ ~requests[i].connected /\ requests[i].response.status = 200
    /\ requests[i].rows_after = {}
    /\ requests[j].connected /\ requests[j].rows_before = {}
    /\ Cardinality(LogRows(requests[i].icd_code, requests[i].achi_code)) = 1
    /\ \A row \in LogRows(requests[i].icd_code, requests[i].achi_code) :
         IsVerdictRow(row, requests[i].result)


\* C26: distinct pairs never share a cache entry: the strings hashed by
\* _get_cache_key for two different pairs differ, also for codes that
\* contain ':', so a cache hit returns what an earlier validate call for the
\* same pair returned, never the entry of another pair.
C26_DistinctPairsHaveDistinctKeys ==
  /\ \A d1, d2 \in KeyIcdInputs : \A p1, p2 \in KeyAchiInputs :
       <<d1, p1>> # <<d2, p2>> => get_cache_key(d1, p1) # get_cache_key(d2, p2)
  /\ (ret.op = "validate" /\ ret.hit)
       => (ret.prior # None /\ ret.result = ret.prior)


\* C27: validate only reads the stores: a step that is a validate call, on
\* any tier and with any answer of the chat model, leaves the registry, the
\* relationship store, the hierarchy tables and the test log as they are,
\* and of the cache it changes at most the entry of the pair it was called
\* with: every other entry stays, unchanged, and no other key appears.
C27_ValidateOnlyReadsStores ==
  [][ret'.op = "validate" =>
       /\ UNCHANGED <<icd10am_codes, achi_codes, valid_relationships>>
       /\ UNCHANGED <<icd_achi_category_mapping, achi_codes_v2, validation_test_log>>
       /\ \A k \in DOMAIN cache :
            k # get_cache_key(ret'.icd_code, ret'.achi_code)
              => (k \in DOMAIN cache' /\ cache'[k] = cache[k])
       /\ DOMAIN cache' \subseteq
            DOMAIN cache \cup {get_cache_key(ret'.icd_code, ret'.achi_code)}]_vars

\* A call answered by the chat model stored its entry next to the entry of
\* another pair, with the store as it was loaded.
C27_Witness ==
  /\ ret.op = "validate" /\ ~ret.hit /\ ret.oracle
  /\ RetKey \in DOMAIN cache
  /\ \E k \in DOMAIN cache : k # RetKey
  /\ valid_relationships = <<InitialRow>>


\* C28: a validate call sends at most one request to the chat model, and
\* exactly one when it reaches the similar-examples or the pure-inference
\* tier, also when the request fails (no retry inside the call); a result of
\* the examples tier reports as similar_examples_count the number of
\* examples sent, between 1 and 5, and every other result reports 0.
C28_OneOracleCallAndExamplesCount ==
  ret.op = "validate" =>
    /\ oracleCalls = ret.calls_before + (IF ret.oracle THEN 1 ELSE 0)
    /\ ret.oracle = (ret.tier \in {"ai_with_examples", "ai_inference"})
    /\ (ret.oracle /\ ~ret.reply.ok)
         => (oracleCalls = ret.calls_before + 1 /\ IsOracleError(ret.result))
    /\ "similar_examples_count" \in DOMAIN ret.result
    /\ (ret.tier = "ai_with_examples" /\ ret.reply.ok)
         => /\ ret.result.source = "ai_with_examples"
            /\ ret.result.similar_examples_count
                 = Len(ret.request.prompt.examples_text)
            /\ ret.result.similar_examples_count
                 = Len(SimilarFor(ret.icd_code, ret.achi_code))
    /\ ret.result.source = "ai_with_examples"
         => ret.result.similar_examples_count \in 1..SimilarLimit
    /\ ret.result.source # "ai_with_examples"
         => ret.result.similar_examples_count = 0

\* Six rows of the categories of the pair are stored: the request carries
\* five examples and the result reports 5.
C28_Witness ==
  /\ ret.op = "validate" /\ ret.tier = "ai_with_examples" /\ ret.reply.ok
  /\ Cardinality(Matching("Dental", "Dental")) = 6
  /\ Len(ret.request.prompt.examples_text) = 5
  /\ ret.result.similar_examples_count = 5
  /\ oracleCalls = ret.calls_before + 1


\* C29: results of the hierarchical path go through the same cache as the
\* other tiers: a validate_code_pair call with hierarchy context first
\* consults the cache for the pair (a cached pair is answered without a
\* request to the chat model), and its non-error result is stored under the
\* key of the pair.
C29_HierarchicalPathUsesCache ==
  (ret.op = "validate_code_pair" /\ ret.flagged) =>
    /\ ret.hit => (~ret.oracle /\ oracleCalls = ret.calls_before)
    /\ ret.result.source # "error"
         => (RetKey \in DOMAIN cache /\ cache[RetKey] = ret.result)


====
